---- MODULE Spec2Model ----
(***************************************************************************)
(* A model of causalml/propensity.py: the propensity-model classes         *)
(* (PropensityModel, LogisticRegressionPropensityModel /                   *)
(* ElasticNetPropensityModel, GradientBoostedPropensityModel), calibrate() *)
(* and compute_propensity_score().                                         *)
(*                                                                         *)
(* Numbers.  A float is an integer count of units, EPS units being the     *)
(* machine epsilon (so that eps * 1.001 is a whole number of units) and    *)
(* ONE = 2^PrecBits * EPS being 1.0.  Floats in [1/2, 1) are EPS/2 apart   *)
(* and floats in [1, 2) are EPS apart, as in binary floating point; Fl     *)
(* rounds the result of an arithmetic operation to the nearest of them.    *)
(* Below 1/2 the model's unit is the resolution.                           *)
(*                                                                         *)
(* The third-party estimators (LogisticRegressionCV, XGBClassifier,        *)
(* IsotonicRegression, roc_auc_score, train_test_split) are the            *)
(* environment: what a fit learns is drawn from a bounded set, and the     *)
(* documented failures of those calls are outcomes of the actions.         *)
(***************************************************************************)
EXTENDS Integers, Sequences, FiniteSets, TLC

VARIABLES
    inst,   \* the propensity-model instance under test (its fields)
    last,   \* the most recent fit / predict / fit_predict call on inst and its outcome
    prev,   \* the most recent predict that returned since the last fit
    data,   \* the feature matrix X and target vector y the calls on inst are made with
    built,  \* the most recent construction: the options supplied and the classifier built
    cal,    \* the most recent calibrate() call and its outcome
    cps     \* the most recent compute_propensity_score() call and its outcome

vars == <<inst, last, prev, data, built, cal, cps>>

-----------------------------------------------------------------------------
(* Bounds of the model *)

\* mantissa width of the modelled float: 1.0 is 2^PrecBits machine epsilons
PrecBits == 16
\* rows of a feature matrix / entries of a vector, in the model-instance and
\* compute_propensity_score specifications
MaxRows == 2
\* entries of the vectors handed to calibrate() in SpecCal
MaxCalLen == 3

-----------------------------------------------------------------------------
(* Floating point *)

\* np.finfo(float).eps, in model units
EPS == 1000

ONE == (2 ^ PrecBits) * EPS

HALF == ONE \div 2

\* spacing of the representable values around v
Ulp(v) == IF v >= ONE THEN EPS ELSE IF v >= HALF THEN EPS \div 2 ELSE 1

\* round to nearest representable value
Fl(v) == LET u == Ulp(v) IN ((2 * v + u) \div (2 * u)) * u

Min2(a, b) == IF a <= b THEN a ELSE b

Max2(a, b) == IF a >= b THEN a ELSE b

\* np.clip(a, lo, hi) on one entry: minimum(maximum(a, lo), hi)
np_clip(a, lo, hi) == Min2(Max2(a, lo), hi)

\* the default clip_bounds=(1e-3, 1 - 1e-3)
DefaultClipBounds == <<Fl(ONE \div 1000), Fl(ONE - ONE \div 1000)>>

Labels == {0, 1}

\* all vectors over S with 1..n entries
Vectors(S, n) == UNION {[1..k -> S] : k \in 1..n}

-----------------------------------------------------------------------------
(* calibrate(ps, treatment): IsotonicRegression(out_of_bounds="clip",      *)
(* y_min=two_eps, y_max=1.0 - two_eps).fit_transform(ps, treatment)        *)

two_eps == 2 * EPS

RECURSIVE SortSet(_)
\* the distinct scores in increasing order
SortSet(S) ==
    IF S = {} THEN <<>>
    ELSE LET m == CHOOSE x \in S : \A y \in S : x <= y
         IN <<m>> \o SortSet(S \ {m})

RECURSIVE SumOver(_, _)
SumOver(f, I) ==
    IF I = {} THEN 0
    ELSE LET i == CHOOSE j \in I : TRUE IN f[i] + SumOver(f, I \ {i})

\* one block per distinct score: the sum and the number of its labels
UniqueBlocks(ps, treatment) ==
    LET xs == SortSet({ps[i] : i \in DOMAIN ps})
    IN [k \in 1..Len(xs) |->
            LET I == {i \in DOMAIN ps : ps[i] = xs[k]}
            IN [s |-> SumOver(treatment, I), w |-> Cardinality(I), n |-> 1]]

RECURSIVE Pool(_, _)
\* pool-adjacent-violators: merge b into the last block while the means decrease
Pool(stack, b) ==
    IF stack = <<>> THEN <<b>>
    ELSE LET top == stack[Len(stack)]
         IN IF top.s * b.w > b.s * top.w
            THEN Pool(SubSeq(stack, 1, Len(stack) - 1),
                      [s |-> top.s + b.s, w |-> top.w + b.w, n |-> top.n + b.n])
            ELSE Append(stack, b)

RECURSIVE PAVA(_, _, _)
PAVA(blocks, i, stack) ==
    IF i > Len(blocks) THEN stack
    ELSE PAVA(blocks, i + 1, Pool(stack, blocks[i]))

\* the mean of a pooled block, clipped to [y_min, y_max]
BlockValue(b, y_min, y_max) == np_clip(Fl((b.s * ONE) \div b.w), y_min, y_max)

RECURSIVE Expand(_, _, _)
\* the fitted value of every distinct score, in increasing order of score
Expand(stack, y_min, y_max) ==
    IF stack = <<>> THEN <<>>
    ELSE [k \in 1..stack[1].n |-> BlockValue(stack[1], y_min, y_max)]
         \o Expand(Tail(stack), y_min, y_max)

\* IsotonicRegression(y_min, y_max).fit_transform(ps, treatment)
IsotonicFitTransform(ps, treatment, y_min, y_max) ==
    LET xs == SortSet({ps[i] : i \in DOMAIN ps})
        ys == Expand(PAVA(UniqueBlocks(ps, treatment), 1, <<>>), y_min, y_max)
    IN [i \in DOMAIN ps |-> ys[CHOOSE k \in 1..Len(xs) : xs[k] = ps[i]]]

\* the isotonic fit rejects vectors of different lengths
calibrate_raises(ps, treatment) == Len(ps) # Len(treatment)

\* calibrate with the isotonic fit left unbounded: y_min and y_max dropped
calibrate_no_floor(ps, treatment) ==
    IsotonicFitTransform(ps, treatment, 0, ONE)

\* calibrate(ps, treatment)
calibrate(ps, treatment) ==
    IsotonicFitTransform(ps, treatment, two_eps, Fl(ONE - two_eps))

-----------------------------------------------------------------------------
(* Construction: PropensityModel.__init__ and the _model properties *)

\* dict.update: the entries of e replace or extend those of d
DictUpdate(d, e) ==
    [k \in DOMAIN d \cup DOMAIN e |-> IF k \in DOMAIN e THEN e[k] ELSE d[k]]

\* dict.pop(key) on a dict that may or may not hold the key: what is left
DictWithout(d, key) == [k \in DOMAIN d \ {key} |-> d[k]]

EmptyDict == [k \in {} |-> <<>>]

\* LogisticRegressionPropensityModel._model: the keyword arguments handed to
\* LogisticRegressionCV, and self.model_kwargs as the pop of n_fold leaves it
LogisticRegression_model(model_kwargs) ==
    LET n_splits == IF "n_fold" \in DOMAIN model_kwargs
                    THEN model_kwargs["n_fold"] ELSE <<"4">>
        popped == DictWithout(model_kwargs, "n_fold")
        seed == IF "random_state" \in DOMAIN popped
                THEN popped["random_state"] ELSE <<"42">>
        kwargs == [k \in {"penalty", "solver", "Cs", "l1_ratios", "cv", "random_state"} |->
                     CASE k = "penalty" -> <<"elasticnet">>
                       [] k = "solver" -> <<"saga">>
                       [] k = "Cs" -> <<"logspace", "1e-3", "1 - 1e-3", "4">>
                       [] k = "l1_ratios" -> <<"linspace", "1e-3", "1 - 1e-3", "4">>
                       [] k = "cv" -> <<"StratifiedKFold">> \o n_splits \o <<"shuffle">> \o seed
                       [] k = "random_state" -> <<"42">>]
    IN [config |-> DictUpdate(kwargs, popped), model_kwargs |-> popped]

\* GradientBoostedPropensityModel._model: the keyword arguments handed to
\* xgb.XGBClassifier; model_kwargs is not changed
GradientBoosted_model(early_stop, model_kwargs) ==
    LET kwargs == [k \in {"max_depth", "learning_rate", "n_estimators", "objective",
                          "nthread", "colsample_bytree", "random_state"} |->
                     CASE k = "max_depth" -> <<"8">>
                       [] k = "learning_rate" -> <<"0.1">>
                       [] k = "n_estimators" -> <<"100">>
                       [] k = "objective" -> <<"binary:logistic">>
                       [] k = "nthread" -> <<"-1">>
                       [] k = "colsample_bytree" -> <<"0.8">>
                       [] k = "random_state" -> <<"42">>]
        updated == DictUpdate(kwargs, model_kwargs)
        stopped == IF early_stop
                   THEN DictUpdate(updated, [k \in {"early_stopping_rounds"} |-> <<"10">>])
                   ELSE updated
    IN [config |-> stopped, model_kwargs |-> model_kwargs]

\* feature values of a row; a fitted classifier maps each to a probability
Features == {1, 2}

\* probabilities a fitted classifier can give a row: predict_proba(X)[:, 1]
Probas == {0, HALF, ONE}

Unfitted == [f \in Features |-> 0]

\* __init__ of a variant ("logistic": LogisticRegressionPropensityModel and its
\* alias ElasticNetPropensityModel; "gradient_boosted"): the fields of the instance
PropensityModel_init(variant, early_stop, clip_bounds, model_kwargs) ==
    LET m == IF variant = "logistic"
             THEN LogisticRegression_model(model_kwargs)
             ELSE GradientBoosted_model(early_stop, model_kwargs)
    IN [variant |-> variant,
        early_stop |-> early_stop,
        clip_bounds |-> clip_bounds,
        model_kwargs |-> m.model_kwargs,
        model |-> [config |-> m.config, fitted |-> FALSE, proba |-> Unfitted]]

\* ElasticNetPropensityModel() with no arguments
DefaultInstance == PropensityModel_init("logistic", FALSE, DefaultClipBounds, EmptyDict)

\* the (variant, early_stop) pairs: early_stop is an option of the
\* gradient-boosted variant only
Variants == {<<"logistic", FALSE>>, <<"gradient_boosted", FALSE>>,
             <<"gradient_boosted", TRUE>>}

\* keyword options supplied at construction in SpecConstruct, each with a
\* value that differs from the default
OptionValue(k) ==
    CASE k = "n_fold" -> <<"3">>
      [] k = "random_state" -> <<"7">>
      [] k = "max_depth" -> <<"5">>
      [] k = "early_stopping_rounds" -> <<"50">>
      [] k = "penalty" -> <<"l1">>

OptionKeys == {"n_fold", "random_state", "max_depth", "early_stopping_rounds", "penalty"}

SuppliedOptions == {[k \in K |-> OptionValue(k)] : K \in SUBSET OptionKeys}

\* clip bounds with 0 < lower < upper < 1 used by the instances of the model
ClipChoices == {DefaultClipBounds, <<HALF \div 2, HALF>>}

-----------------------------------------------------------------------------
(* fit, predict and fit_predict on an instance *)

OneClass(y) == Cardinality({y[i] : i \in DOMAIN y}) < 2

\* the underlying classifier's fit rejects X and y of different lengths, and
\* the logistic classifier needs samples of two classes
classifier_fit_rejects(variant, X, y) ==
    \/ Len(X) # Len(y)
    \/ variant = "logistic" /\ OneClass(y)

\* train_test_split(X, y, test_size=0.2) rejects X and y of different lengths
\* and a sample it cannot split into a non-empty train and validation part
train_test_split_raises(X, y) == Len(X) # Len(y) \/ Len(X) < 2

\* PropensityModel.fit: self.model.fit(X, y)
PropensityModel_fit_raises(self, X, y) ==
    classifier_fit_rejects(self.variant, X, y)

\* GradientBoostedPropensityModel.fit: with early_stop the data is split and
\* the classifier is fitted on the train part; otherwise the base fit
GradientBoosted_fit_raises(self, X, y) ==
    IF self.early_stop
    THEN train_test_split_raises(X, y)
    ELSE PropensityModel_fit_raises(self, X, y)

fit_raises(self, X, y) ==
    IF self.variant = "gradient_boosted"
    THEN GradientBoosted_fit_raises(self, X, y)
    ELSE PropensityModel_fit_raises(self, X, y)

\* the instance after a fit that learned the probabilities `learned`
fit_post(self, learned) ==
    [self EXCEPT !.model.fitted = TRUE, !.model.proba = learned]

\* a predict that resets the fitted parameters
predict_post_refits(self) == [self EXCEPT !.model.proba = Unfitted]

\* the instance after predict: predict assigns nothing
predict_post(self) == self

\* a predict that returns the classifier's probabilities as they are
PropensityModel_predict_unclipped(self, X) ==
    [i \in DOMAIN X |-> self.model.proba[X[i]]]

\* PropensityModel.predict: np.clip(self.model.predict_proba(X)[:, 1], *self.clip_bounds)
PropensityModel_predict(self, X) ==
    [i \in DOMAIN X |->
        np_clip(self.model.proba[X[i]], self.clip_bounds[1], self.clip_bounds[2])]

\* an early-stopping predict that clips from below only
GradientBoosted_predict_no_upper(self, X) ==
    IF self.early_stop
    THEN [i \in DOMAIN X |-> Max2(self.model.proba[X[i]], self.clip_bounds[1])]
    ELSE PropensityModel_predict(self, X)

\* GradientBoostedPropensityModel.predict
GradientBoosted_predict(self, X) ==
    IF self.early_stop
    THEN [i \in DOMAIN X |->
            np_clip(self.model.proba[X[i]], self.clip_bounds[1], self.clip_bounds[2])]
    ELSE PropensityModel_predict(self, X)

predict(self, X) ==
    IF self.variant = "gradient_boosted"
    THEN GradientBoosted_predict(self, X)
    ELSE PropensityModel_predict(self, X)

\* roc_auc_score(y, scores) is not defined when y holds one class only
auc_undefined(y) == OneClass(y)

NoData == [X |-> <<>>, y |-> <<>>]

NoCall == [op |-> "none", status |-> "none", at |-> "none", result |-> <<>>]

NoPrev == [valid |-> FALSE, again |-> FALSE, result |-> <<>>]

\* self.fit(X, y)
Fit ==
    /\ \E learned \in [Features -> Probas], ok \in BOOLEAN :
          /\ fit_raises(inst, data.X, data.y) => ~ok
          /\ IF ok
             THEN /\ inst' = fit_post(inst, learned)
                  /\ last' = [op |-> "fit", status |-> "returned", at |-> "done",
                              result |-> <<>>]
                  /\ prev' = NoPrev
             ELSE /\ inst' = inst
                  /\ last' = [op |-> "fit", status |-> "ValueError", at |-> "fit",
                              result |-> <<>>]
                  /\ prev' = prev
    /\ UNCHANGED <<data, built, cal, cps>>

\* self.predict(X)
Predict ==
    /\ IF inst.model.fitted
       THEN /\ inst' = predict_post(inst)
            /\ last' = [op |-> "predict", status |-> "returned", at |-> "done",
                        result |-> predict(inst, data.X)]
            /\ prev' = [valid |-> TRUE, again |-> prev.valid,
                        result |-> predict(inst, data.X)]
       ELSE /\ inst' = inst
            /\ last' = [op |-> "predict", status |-> "NotFittedError", at |-> "predict",
                        result |-> <<>>]
            /\ prev' = prev
    /\ UNCHANGED <<data, built, cal, cps>>

\* self.fit_predict(X, y): fit, predict, then the AUC of the scores is
\* computed for the log line before the scores are returned
FitPredict ==
    /\ \E learned \in [Features -> Probas], ok \in BOOLEAN, auc_raises \in BOOLEAN :
          /\ fit_raises(inst, data.X, data.y) => ~ok
          /\ auc_raises => ok /\ auc_undefined(data.y)
          /\ IF ~ok
             THEN /\ inst' = inst
                  /\ last' = [op |-> "fit_predict", status |-> "ValueError", at |-> "fit",
                              result |-> <<>>]
                  /\ prev' = prev
             ELSE LET fitted == fit_post(inst, learned)
                      propensity_scores == predict(fitted, data.X)
                  IN /\ inst' = predict_post(fitted)
                     /\ prev' = [valid |-> TRUE, again |-> FALSE,
                                 result |-> propensity_scores]
                     /\ last' = IF auc_raises
                                THEN [op |-> "fit_predict", status |-> "ValueError",
                                      at |-> "auc", result |-> <<>>]
                                ELSE [op |-> "fit_predict", status |-> "returned",
                                      at |-> "done", result |-> propensity_scores]
    /\ UNCHANGED <<data, built, cal, cps>>

NoBuilt == [done |-> FALSE, variant |-> "none", early_stop |-> FALSE,
            clip_bounds |-> DefaultClipBounds, supplied |-> EmptyDict]

\* the constructor of built.variant runs with the drawn arguments
Construct ==
    /\ ~built.done
    /\ inst' = PropensityModel_init(built.variant, built.early_stop,
                                    built.clip_bounds, built.supplied)
    /\ built' = [built EXCEPT !.done = TRUE]
    /\ UNCHANGED <<last, prev, data, cal, cps>>

-----------------------------------------------------------------------------
(* calibrate() called on its own *)

NoCal == [called |-> FALSE, ps |-> <<>>, treatment |-> <<>>,
          status |-> "none", out |-> <<>>]

\* score vectors handed to calibrate() in SpecCal
CalScores == {0, ONE \div 1000, HALF, ONE - EPS, ONE}

\* calibrate(cal.ps, cal.treatment) is called
Calibrate ==
    /\ ~cal.called
    /\ cal' = IF calibrate_raises(cal.ps, cal.treatment)
              THEN [cal EXCEPT !.called = TRUE, !.status = "ValueError"]
              ELSE [cal EXCEPT !.called = TRUE, !.status = "returned",
                               !.out = calibrate(cal.ps, cal.treatment)]
    /\ UNCHANGED <<inst, last, prev, data, built, cps>>

-----------------------------------------------------------------------------
(* compute_propensity_score(X, treatment, p_model, X_pred, treatment_pred,   *)
(* calibrate_p)                                                              *)

\* an optional argument: None, or a value
None == [given |-> FALSE, v |-> <<>>]

Some(v) == [given |-> TRUE, v |-> v]

\* clip bounds of the supplied propensity models, besides the default ones:
\* both below machine epsilon, and within machine epsilon of 0 and of 1
TinyClipBounds == <<EPS \div 4, EPS \div 2>>

WideClipBounds == <<EPS \div 2, ONE - EPS \div 2>>

\* class PropensityModel and its subclasses define fit, predict and
\* fit_predict, and no predict_proba
PropensityModel_object(id, variant, early_stop, clip_bounds) ==
    [id |-> id, kind |-> "PropensityModel",
     self |-> PropensityModel_init(variant, early_stop, clip_bounds, EmptyDict),
     has_predict_proba |-> FALSE, has_predict |-> TRUE]

\* stands where a classifier that is no PropensityModel has no such fields
NoInstance == [DefaultInstance EXCEPT !.variant = "not_a_propensity_model"]

\* any other classifier object, by the methods it exposes
Classifier_object(id, has_predict_proba, has_predict) ==
    [id |-> id, kind |-> "classifier", self |-> NoInstance,
     has_predict_proba |-> has_predict_proba, has_predict |-> has_predict]

\* the objects a caller passes as p_model
SuppliedModels ==
    {PropensityModel_object("supplied_logistic", "logistic", FALSE, WideClipBounds),
     PropensityModel_object("supplied_gb_early", "gradient_boosted", TRUE, TinyClipBounds),
     PropensityModel_object("supplied_gb", "gradient_boosted", FALSE, DefaultClipBounds),
     Classifier_object("supplied_clf_both", TRUE, TRUE),
     Classifier_object("supplied_clf_proba", TRUE, FALSE),
     Classifier_object("supplied_clf_predict", FALSE, TRUE)}

\* scores a classifier's predict_proba(X)[:, 1] gives a row
RawScores == {0, EPS \div 2, HALF, ONE - EPS \div 2, ONE}

\* labels a classifier's predict(X) gives a row
HardLabels == {0, ONE}

NoScores == [f \in Features |-> 0]

\* what the environment decides during one call: whether the fit succeeds and
\* what it learns, and how the classifier's predict_proba and predict end
FitFails ==
    [fit_ok |-> FALSE, learned |-> Unfitted, proba_outcome |-> "none",
     scores |-> NoScores, predict_outcome |-> "none", labels |-> NoScores]

PredictOutcomes(m) ==
    IF m.has_predict
    THEN {[FitFails EXCEPT !.fit_ok = TRUE, !.predict_outcome = "ok", !.labels = l] :
             l \in [Features -> HardLabels]}
         \cup {[FitFails EXCEPT !.fit_ok = TRUE, !.predict_outcome = "ValueError"]}
    ELSE {[FitFails EXCEPT !.fit_ok = TRUE]}

Outcomes(m) ==
    IF m.kind = "PropensityModel"
    THEN {FitFails} \cup {[FitFails EXCEPT !.fit_ok = TRUE, !.learned = l] :
                             l \in [Features -> Probas]}
    ELSE IF m.has_predict_proba
    THEN {FitFails}
         \cup {[FitFails EXCEPT !.fit_ok = TRUE, !.proba_outcome = "ok", !.scores = sc] :
                  sc \in [Features -> RawScores]}
         \cup {[FitFails EXCEPT !.fit_ok = TRUE, !.proba_outcome = "ValueError"]}
         \cup {[e EXCEPT !.proba_outcome = "AttributeError"] : e \in PredictOutcomes(m)}
    ELSE {FitFails} \cup PredictOutcomes(m)

\* lines 219-220: the calibration target
cps_treatment_pred(treatment, treatment_pred) ==
    IF ~treatment_pred.given
    THEN [obj |-> "copy_of_treatment", v |-> treatment]
    ELSE [obj |-> "treatment_pred", v |-> treatment_pred.v]

\* lines 221-222: the model that is fitted
cps_p_model(p_model) ==
    IF ~p_model.given
    THEN PropensityModel_object("constructed_elasticnet", "logistic", FALSE,
                                DefaultClipBounds)
    ELSE p_model.v

\* a prediction on the training matrix whatever X_pred is
cps_X_pred_ignored(X, X_pred) == X

\* line 226: the matrix predicted on
cps_X_pred(X, X_pred) == IF ~X_pred.given THEN X ELSE X_pred.v

cps_fit_raises(m, X, treatment) ==
    IF m.kind = "PropensityModel"
    THEN fit_raises(m.self, X, treatment)
    ELSE Len(X) # Len(treatment)

\* a clamp without its first np.where
force_range_upper_only(p) ==
    [i \in DOMAIN p |-> IF p[i] > Fl(ONE - EPS) THEN Fl(ONE - Fl((EPS * 1001) \div 1000))
                        ELSE p[i]]

\* lines 240-242: the two np.where of the final clamp
force_range(p) ==
    LET eps == EPS
        p1 == [i \in DOMAIN p |->
                 IF p[i] < Fl(0 + eps) THEN Fl(0 + Fl((eps * 1001) \div 1000)) ELSE p[i]]
    IN [i \in DOMAIN p1 |->
          IF p1[i] > Fl(ONE - eps) THEN Fl(ONE - Fl((eps * 1001) \div 1000)) ELSE p1[i]]

\* a return that keeps the model after calibration
cps_second_keeps_model(m, calibrate_p) == m.id

\* lines 234-237 and 244: the second return value
cps_second(m, calibrate_p) == IF calibrate_p THEN "None" ELSE m.id

NoCps == [called |-> FALSE, X |-> <<>>, treatment |-> <<>>, p_model |-> None,
          X_pred |-> None, treatment_pred |-> None, calibrate_p |-> FALSE,
          status |-> "none", at |-> "none", path |-> "none", fitted_id |-> "none",
          exposes_predict_proba |-> FALSE, proba_outcome |-> "none",
          target |-> [obj |-> "none", v |-> <<>>], raw |-> <<>>, pre |-> <<>>,
          p |-> <<>>, second |-> "none", treatment_after |-> <<>>]

\* the record of a call that raised `error` in step `at`
cps_raised(c, m, error, at, path, proba) ==
    [c EXCEPT !.called = TRUE, !.status = error, !.at = at, !.path = path,
              !.fitted_id = m.id, !.exposes_predict_proba = m.has_predict_proba,
              !.proba_outcome = proba]

\* the whole call, on the arguments in c, with the outcomes e
compute_propensity_score(c, e) ==
    LET treatment_pred == cps_treatment_pred(c.treatment, c.treatment_pred)
        m == cps_p_model(c.p_model)
        X_pred == cps_X_pred(c.X, c.X_pred)
        fitted == IF m.kind = "PropensityModel" THEN fit_post(m.self, e.learned)
                  ELSE m.self
        \* try: p = p_model.predict_proba(X_pred)[:, 1]
        proba == IF ~m.has_predict_proba THEN "AttributeError" ELSE e.proba_outcome
        \* except AttributeError: p = p_model.predict(X_pred)
        fallback == IF ~m.has_predict THEN "AttributeError"
                    ELSE IF m.kind = "PropensityModel" THEN "ok"
                    ELSE e.predict_outcome
        raw == IF proba = "ok"
               THEN [i \in DOMAIN X_pred |-> e.scores[X_pred[i]]]
               ELSE IF m.kind = "PropensityModel"
               THEN predict(fitted, X_pred)
               ELSE [i \in DOMAIN X_pred |-> e.labels[X_pred[i]]]
        path == IF proba = "AttributeError" THEN "fallback" ELSE "proba"
        pre == IF c.calibrate_p THEN calibrate(raw, treatment_pred.v) ELSE raw
    IN IF ~e.fit_ok \/ cps_fit_raises(m, c.X, c.treatment)
       THEN cps_raised(c, m, "ValueError", "fit", "none", "none")
       ELSE IF proba = "ValueError"
       THEN cps_raised(c, m, "ValueError", "predict_proba", path, proba)
       ELSE IF proba = "AttributeError" /\ fallback # "ok"
       THEN cps_raised(c, m, fallback, "predict", path, proba)
       ELSE IF c.calibrate_p /\ calibrate_raises(raw, treatment_pred.v)
       THEN [cps_raised(c, m, "ValueError", "calibrate", path, proba)
                EXCEPT !.raw = raw, !.target = treatment_pred]
       ELSE [c EXCEPT !.called = TRUE, !.status = "returned", !.at = "done",
                      !.path = path, !.fitted_id = m.id,
                      !.exposes_predict_proba = m.has_predict_proba,
                      !.proba_outcome = proba,
                      !.target = IF c.calibrate_p THEN treatment_pred
                                 ELSE [obj |-> "none", v |-> <<>>],
                      !.raw = raw, !.pre = pre, !.p = force_range(pre),
                      !.second = cps_second(m, c.calibrate_p),
                      !.treatment_after = c.treatment]

\* compute_propensity_score is called on the drawn arguments
ComputePropensityScore ==
    /\ ~cps.called
    /\ \E e \in Outcomes(cps_p_model(cps.p_model)) :
          cps' = compute_propensity_score(cps, e)
    /\ UNCHANGED <<inst, last, prev, data, built, cal>>

-----------------------------------------------------------------------------
(* Specifications *)

\* the data sets of SpecModel: every X, with every y of its length and one
\* y of another length
DataSets ==
    {[X |-> X, y |-> y] : X \in Vectors(Features, MaxRows), y \in Vectors(Labels, MaxRows + 1)}

\* a freshly constructed instance of any variant, then calls on it
InitModel ==
    /\ inst \in {PropensityModel_init(v[1], v[2], cb, EmptyDict) :
                    v \in Variants, cb \in ClipChoices}
    /\ data \in {d \in DataSets : Len(d.y) = Len(d.X) \/ d.y = [i \in 1..(Len(d.X) + 1) |-> 0]}
    /\ last = NoCall
    /\ prev = NoPrev
    /\ built = NoBuilt
    /\ cal = NoCal
    /\ cps = NoCps

NextModel == Fit \/ Predict \/ FitPredict

SpecModel == InitModel /\ [][NextModel]_vars

\* the arguments of a construction are drawn, then the constructor runs
InitConstruct ==
    /\ inst = DefaultInstance
    /\ built \in {[done |-> FALSE, variant |-> v[1], early_stop |-> v[2],
                   clip_bounds |-> cb, supplied |-> kw] :
                      v \in Variants, cb \in ClipChoices, kw \in SuppliedOptions}
    /\ data = NoData
    /\ last = NoCall
    /\ prev = NoPrev
    /\ cal = NoCal
    /\ cps = NoCps

SpecConstruct == InitConstruct /\ [][Construct]_vars

\* the arguments of calibrate() are drawn, then it runs
InitCal ==
    /\ inst = DefaultInstance
    /\ cal \in {[called |-> FALSE, ps |-> ps, treatment |-> t, status |-> "none",
                 out |-> <<>>] :
                   ps \in Vectors(CalScores, MaxCalLen), t \in Vectors(Labels, MaxCalLen)}
    /\ data = NoData
    /\ last = NoCall
    /\ prev = NoPrev
    /\ built = NoBuilt
    /\ cps = NoCps

SpecCal == InitCal /\ [][Calibrate]_vars

\* the training matrix of n rows
TrainX(n) == [i \in 1..n |-> IF i % 2 = 1 THEN 1 ELSE 2]

OptionalVectors(S) == {None} \cup {Some(v) : v \in Vectors(S, MaxRows)}

\* the arguments of a call are drawn, then the call runs
InitCps ==
    /\ inst = DefaultInstance
    /\ cps \in {[NoCps EXCEPT !.X = TrainX(n), !.treatment = t, !.treatment_after = t,
                              !.p_model = pm, !.X_pred = xp, !.treatment_pred = tp,
                              !.calibrate_p = cp] :
                   n \in 1..MaxRows, t \in Vectors(Labels, MaxRows),
                   pm \in {None} \cup {Some(m) : m \in SuppliedModels},
                   xp \in OptionalVectors(Features), tp \in OptionalVectors(Labels),
                   cp \in BOOLEAN}
    /\ Len(cps.treatment) = Len(cps.X)
    /\ data = NoData
    /\ last = NoCall
    /\ prev = NoPrev
    /\ built = NoBuilt
    /\ cal = NoCal

SpecCps == InitCps /\ [][ComputePropensityScore]_vars


-----------------------------------------------------------------------------
(* Properties of the model instances: SpecModel and SpecConstruct *)

Returned(op) == last.op = op /\ last.status = "returned"

WithinOpen(r, bounds) == \A i \in DOMAIN r : bounds[1] < r[i] /\ r[i] < bounds[2]

WithinClosed(r, bounds) == \A i \in DOMAIN r : bounds[1] <= r[i] /\ r[i] <= bounds[2]

\* C3 as stated: predict after fit returns one value per row of X, each
\* strictly between the lower and the upper clip bound.
C3_PredictStrictlyWithinBounds ==
    Returned("predict") =>
        /\ Len(last.result) = Len(data.X)
        /\ WithinOpen(last.result, inst.clip_bounds)

\* C3 amended: predict after fit returns one value per row of X, each within
\* the closed interval [lower, upper]; a probability at or below lower comes
\* back as lower itself and one at or above upper as upper itself.
C3_PredictWithinClosedBounds ==
    Returned("predict") =>
        /\ Len(last.result) = Len(data.X)
        /\ WithinClosed(last.result, inst.clip_bounds)
        /\ \A i \in DOMAIN data.X :
              LET raw == inst.model.proba[data.X[i]]
              IN /\ raw <= inst.clip_bounds[1] => last.result[i] = inst.clip_bounds[1]
                 /\ raw >= inst.clip_bounds[2] => last.result[i] = inst.clip_bounds[2]

\* the early-stopping variant predicted a row whose probability was exactly 0
\* and a row whose probability was exactly 1
C3_Witness ==
    /\ Returned("predict")
    /\ inst.variant = "gradient_boosted" /\ inst.early_stop
    /\ \E i, j \in DOMAIN data.X :
          /\ inst.model.proba[data.X[i]] = 0 /\ last.result[i] = inst.clip_bounds[1]
          /\ inst.model.proba[data.X[j]] = ONE /\ last.result[j] = inst.clip_bounds[2]

\* C7: a predict call leaves every field of the instance as it was, a change
\* of the fitted parameters happens only in a fit or fit_predict call, and a
\* predict that follows another with no fit in between returns the same scores.
C7_PredictLeavesInstanceUnchanged ==
    [][/\ Predict => /\ inst' = inst
                     /\ (prev.valid /\ last'.status = "returned"
                            => last'.result = prev.result)
       /\ inst'.model # inst.model => last'.op \in {"fit", "fit_predict"}
       /\ inst'.clip_bounds = inst.clip_bounds
       /\ inst'.model_kwargs = inst.model_kwargs
       /\ inst'.model.config = inst.model.config]_vars

\* a second predict returned after a fit, with no fit in between
C7_Witness ==
    /\ Returned("predict")
    /\ prev.valid /\ prev.again
    /\ inst.model.fitted
    /\ last.result = prev.result

\* C9 as stated: whenever the fit inside fit_predict completes (so that fit
\* followed by predict completes), fit_predict returns, and it returns the
\* scores predict gives on the fitted instance.
C9_FitPredictReturnsPredictScores ==
    last.op = "fit_predict" /\ last.at # "fit" =>
        /\ last.status = "returned"
        /\ last.result = predict(inst, data.X)

\* the documented default of an option that was not supplied
DocumentedDefault(variant, early_stop, k) ==
    IF variant = "logistic"
    THEN CASE k = "penalty" -> <<"elasticnet">>
           [] k = "solver" -> <<"saga">>
           [] k = "Cs" -> <<"logspace", "1e-3", "1 - 1e-3", "4">>
           [] k = "l1_ratios" -> <<"linspace", "1e-3", "1 - 1e-3", "4">>
           [] k = "random_state" -> <<"42">>
           [] OTHER -> <<"absent">>
    ELSE CASE k = "max_depth" -> <<"8">>
           [] k = "learning_rate" -> <<"0.1">>
           [] k = "n_estimators" -> <<"100">>
           [] k = "objective" -> <<"binary:logistic">>
           [] k = "nthread" -> <<"-1">>
           [] k = "colsample_bytree" -> <<"0.8">>
           [] k = "random_state" -> <<"42">>
           [] k = "early_stopping_rounds" /\ early_stop -> <<"10">>
           [] OTHER -> <<"absent">>

\* C6 as stated: the classifier configuration is the defaults overridden by
\* the supplied options: every supplied key other than n_fold is in the
\* configuration with the supplied value, every other key has its default,
\* and the logistic variant's fold count is n_fold, or 4 when absent.
C6_SuppliedOptionsOverrideDefaults ==
    built.done =>
        LET config == inst.model.config
            passed == IF built.variant = "logistic"
                      THEN DOMAIN built.supplied \ {"n_fold"}
                      ELSE DOMAIN built.supplied
        IN /\ \A k \in passed : k \in DOMAIN config /\ config[k] = built.supplied[k]
           /\ \A k \in DOMAIN config \ (passed \cup {"cv"}) :
                 config[k] = DocumentedDefault(built.variant, built.early_stop, k)
           /\ built.variant = "logistic" =>
                 config["cv"][2] = IF "n_fold" \in DOMAIN built.supplied
                                   THEN built.supplied["n_fold"][1] ELSE "4"

-----------------------------------------------------------------------------
(* Properties of calibrate(): SpecCal *)

\* C4: for a score vector and a treatment vector of the same length calibrate
\* returns a vector of that length, non-decreasing in the input score (equal
\* scores get equal outputs), with every entry in [2*eps, 1 - 2*eps].
C4_CalibrateMonotoneWithinTwoEps ==
    cal.called =>
        /\ Len(cal.ps) = Len(cal.treatment) => cal.status = "returned"
        /\ cal.status = "returned" =>
              /\ Len(cal.out) = Len(cal.ps)
              /\ \A i, j \in DOMAIN cal.ps :
                    cal.ps[i] <= cal.ps[j] => cal.out[i] <= cal.out[j]
              /\ \A i \in DOMAIN cal.out :
                    2 * EPS <= cal.out[i] /\ cal.out[i] <= ONE - 2 * EPS

\* calibrate pooled a higher-scored control with a lower-scored treated unit,
\* and floored another entry at 2*eps
C4_Witness ==
    /\ cal.called /\ cal.status = "returned"
    /\ \E i, j \in DOMAIN cal.ps :
          /\ cal.ps[i] < cal.ps[j]
          /\ cal.treatment[i] = 1 /\ cal.treatment[j] = 0
          /\ cal.out[i] = cal.out[j]
    /\ \E k \in DOMAIN cal.out : cal.out[k] = 2 * EPS

-----------------------------------------------------------------------------
(* Properties of compute_propensity_score(): SpecCps *)

CpsReturned == cps.called /\ cps.status = "returned"

\* the model the call fits
CpsModel == cps_p_model(cps.p_model)

\* the matrix the call predicts on
CpsRows == IF cps.X_pred.given THEN cps.X_pred.v ELSE cps.X

\* C1: when the call returns, the second return value is None exactly when
\* calibrate_p is true; otherwise it is the object that was fitted: the
\* supplied p_model itself, or the ElasticNetPropensityModel built in the call.
C1_SecondReturnValue ==
    CpsReturned =>
        /\ cps.second = "None" <=> cps.calibrate_p
        /\ ~cps.calibrate_p =>
              /\ cps.second = cps.fitted_id
              /\ cps.p_model.given => cps.second = cps.p_model.v.id
              /\ ~cps.p_model.given =>
                    /\ cps.second = "constructed_elasticnet"
                    /\ cps.second \notin {m.id : m \in SuppliedModels}

\* an uncalibrated call returned the supplied model
C1_Witness ==
    /\ CpsReturned
    /\ ~cps.calibrate_p
    /\ cps.p_model.given
    /\ cps.second = cps.p_model.v.id

\* C2: every returned score is strictly between 0 and 1, with and without
\* calibration and on both prediction paths: a value below eps comes back as
\* 1.001*eps, a value above 1 - eps as 1 - 1.001*eps (as the floating-point
\* subtraction gives it), any other value unchanged.
C2_ScoresStrictlyInsideUnitInterval ==
    CpsReturned =>
        /\ Len(cps.p) = Len(cps.pre)
        /\ \A i \in DOMAIN cps.p :
              /\ 0 < cps.p[i] /\ cps.p[i] < ONE
              /\ cps.pre[i] < EPS => cps.p[i] = (EPS * 1001) \div 1000
              /\ cps.pre[i] > ONE - EPS => cps.p[i] = Fl(ONE - (EPS * 1001) \div 1000)
              /\ EPS <= cps.pre[i] /\ cps.pre[i] <= ONE - EPS => cps.p[i] = cps.pre[i]

\* an uncalibrated call on the fallback path returned for hard labels 0 and 1
C2_Witness ==
    /\ CpsReturned
    /\ ~cps.calibrate_p
    /\ cps.path = "fallback" /\ CpsModel.kind = "classifier"
    /\ \E i, j \in DOMAIN cps.pre : cps.pre[i] = 0 /\ cps.pre[j] = ONE

\* C5 as stated: run with a PropensityModel, every returned score lies within
\* that model's clip bounds, with calibrate_p false and true alike.
C5_ScoresWithinClipBounds ==
    CpsReturned /\ CpsModel.kind = "PropensityModel" =>
        WithinClosed(cps.p, CpsModel.self.clip_bounds)

\* C5 amended: run with a PropensityModel and calibrate_p false, every
\* returned score lies within the model's clip bounds provided the bounds lie
\* within [eps, 1 - eps]; with calibrate_p true every returned score lies
\* within [2*eps, 1 - 2*eps], whatever the clip bounds are.
C5_ClipBoundsHoldWithoutCalibration ==
    CpsReturned /\ CpsModel.kind = "PropensityModel" =>
        LET bounds == CpsModel.self.clip_bounds
        IN /\ ~cps.calibrate_p /\ EPS <= bounds[1] /\ bounds[2] <= ONE - EPS =>
                 WithinClosed(cps.p, bounds)
           /\ cps.calibrate_p => WithinClosed(cps.p, <<2 * EPS, ONE - 2 * EPS>>)

\* an uncalibrated call with the default model returned a score equal to the
\* lower clip bound, for a row the classifier gave probability 0
C5_Witness ==
    /\ CpsReturned
    /\ ~cps.calibrate_p
    /\ ~cps.p_model.given
    /\ \E i \in DOMAIN cps.p : cps.p[i] = DefaultClipBounds[1]

\* C8 as stated: past the fit, the fallback to predict is taken if and only if
\* the model exposes no predict_proba, and a failure of predict_proba
\* reaches the caller as it was raised.
C8_FallbackOnlyWithoutPredictProba ==
    cps.called /\ cps.at # "fit" =>
        /\ cps.path = "fallback" <=> ~cps.exposes_predict_proba
        /\ cps.exposes_predict_proba /\ cps.proba_outcome # "ok" =>
              cps.status = cps.proba_outcome /\ cps.at = "predict_proba"

====
